---- MODULE Spec2Model ----
(***************************************************************************)
(* Model of the video-link resolver of vlogapp/templatetags/vlog_tags.py:  *)
(* the template filters is_youtube, is_vimeo, extract_youtube_id,          *)
(* extract_vimeo_id and get_video_embed_url, applied by one or more        *)
(* callers (template renderings) to URL strings.                           *)
(*                                                                         *)
(* A Python str is a sequence of one-character strings; None and the       *)
(* other non-str values are one-element sequences holding a longer word,   *)
(* so that they differ from every str.                                     *)
(***************************************************************************)
EXTENDS Integers, Sequences, FiniteSets, TLC

\* frame: the calls of the template filters; db: the database rows of the
\* application; requests: the HTTP requests and admin operations started so
\* far, each with its position; clock: timezone.now(); last: the outcome of
\* the last run of initialize_app and its time, if nothing was written since
VARIABLES frame, db, requests, clock, last

vars == <<frame, db, requests, clock, last>>

appvars == <<db, requests, clock, last>>

\* the database before any row is written
EmptyDb ==
    [users |-> {}, categories |-> {}, posts |-> {},
     user_seq |-> 0, cat_seq |-> 0, post_seq |-> 0]

\* no run of initialize_app produced the present database
NoRun == [run |-> "none", outcome |-> "none", at |-> 0]

\* the application at rest, for the specifications of the filters alone
AppAtRest == db = EmptyDb /\ requests = <<>> /\ clock = 0 /\ last = NoRun

\* ---------------------------------------------------------------- values

None == <<"None">>

True == <<"True">>

False == <<"False">>

\* the exception `in` and re.search raise on an operand that is no str
TypeError == <<"TypeError">>

\* no regular-expression match at a position (internal to the matcher)
NoMatch == <<"NoMatch">>

IsStr(v) == \A k \in 1..Len(v) : v[k] \notin {"None", "True", "False", "TypeError", "NoMatch"}

\* Python truthiness of a str-or-None value: `not url` holds of None and ""
Truthy(url) == url # None /\ url # <<>>

\* ------------------------------------------------- character classes

\* [a-zA-Z0-9_-]
IdChars == {"a", "b", "c", "d", "e", "f", "g", "h", "i", "j", "k", "l", "m", "n", "o", "p",
     "q", "r", "s", "t", "u", "v", "w", "x", "y", "z", "A", "B", "C", "D", "E", "F",
     "G", "H", "I", "J", "K", "L", "M", "N", "O", "P", "Q", "R", "S", "T", "U", "V",
     "W", "X", "Y", "Z", "0", "1", "2", "3", "4", "5", "6", "7", "8", "9", "_", "-"}

\* \d
Digits == {"0", "1", "2", "3", "4", "5", "6", "7", "8", "9"}

\* the {11} of the three YouTube patterns
IdLen == 11

\* ------------------------------------------ literals of the source

\* https:// and http:// of (?:https?://)?
HTTPS_SCHEME == <<"h","t","t","p","s",":","/","/">>

HTTP_SCHEME == <<"h","t","t","p",":","/","/">>

\* www\.
WWW_DOT == <<"w","w","w",".">>

\* youtube\.com/watch\?v=
WATCH_LIT == <<"y","o","u","t","u","b","e",".","c","o","m","/","w","a","t","c","h","?","v","=">>

\* youtu\.be/
SHORT_LIT == <<"y","o","u","t","u",".","b","e","/">>

\* youtube\.com/embed/
EMBED_LIT == <<"y","o","u","t","u","b","e",".","c","o","m","/","e","m","b","e","d","/">>

\* vimeo\.com/
VIMEO_LIT == <<"v","i","m","e","o",".","c","o","m","/">>

\* player\.vimeo\.com/video/
PLAYER_LIT == <<"p","l","a","y","e","r",".","v","i","m","e","o",".","c","o","m","/","v","i","d","e","o","/">>

\* 'youtube.com', 'youtu.be' and 'vimeo.com' of the substring tests
YOUTUBE_COM == <<"y","o","u","t","u","b","e",".","c","o","m">>

YOUTU_BE == <<"y","o","u","t","u",".","b","e">>

VIMEO_COM == <<"v","i","m","e","o",".","c","o","m">>

\* ------------------------------------------------------ str operations

LitAt(s, i, lit) ==
    /\ i + Len(lit) - 1 <= Len(s)
    /\ \A k \in 1..Len(lit) : s[i + k - 1] = lit[k]

\* sub in s
In(sub, s) == \E i \in 1..(Len(s) + 1) : LitAt(s, i, sub)

\* ------------------------------------------ the regular expressions

\* $ : at the end of the string, or just before a newline that ends it
DollarAt(s, e) == e = Len(s) + 1 \/ (e = Len(s) /\ s[e] = "\n")

\* length of the longest run of characters of class cls starting at s[k]
RECURSIVE RunLen(_, _, _)
RunLen(s, k, cls) ==
    IF k <= Len(s) /\ s[k] \in cls THEN 1 + RunLen(s, k + 1, cls) ELSE 0

\* the capturing group and what follows it, matched at s[k]: the group's text
GroupAt(s, k, p) ==
    LET n == IF p.count = 0 THEN RunLen(s, k, p.cls) ELSE p.count
        e == k + n
    IN  IF /\ n >= 1
           /\ e - 1 <= Len(s)
           /\ \A x \in k..(e - 1) : s[x] \in p.cls
           /\ \/ p.tail = "none"
              \/ (e <= Len(s) /\ s[e] = p.tail)
              \/ DollarAt(s, e)
        THEN SubSeq(s, k, e - 1)
        ELSE NoMatch

\* the literal part and the group, matched at s[j]
BodyAt(s, j, p) ==
    IF LitAt(s, j, p.lit) THEN GroupAt(s, j + Len(p.lit), p) ELSE NoMatch

\* (?:www\.)? and the rest of pattern p, matched at s[j]: the optional group
\* is greedy, the matcher takes it first and backtracks to leaving it out
AfterScheme(s, j, p) ==
    IF p.www /\ LitAt(s, j, WWW_DOT) /\ BodyAt(s, j + Len(WWW_DOT), p) # NoMatch
    THEN BodyAt(s, j + Len(WWW_DOT), p)
    ELSE BodyAt(s, j, p)

\* re.match of pattern p at position i of s: group(1), or NoMatch.
\* (?:https?://)? is greedy as well.
MatchAt(s, i, p) ==
    IF /\ LitAt(s, i, HTTPS_SCHEME)
       /\ AfterScheme(s, i + Len(HTTPS_SCHEME), p) # NoMatch
    THEN AfterScheme(s, i + Len(HTTPS_SCHEME), p)
    ELSE IF /\ LitAt(s, i, HTTP_SCHEME)
            /\ AfterScheme(s, i + Len(HTTP_SCHEME), p) # NoMatch
    THEN AfterScheme(s, i + Len(HTTP_SCHEME), p)
    ELSE AfterScheme(s, i, p)

\* re.search(p, s) followed by match.group(1): the group of the leftmost
\* match, None when there is no match, TypeError when s is not a str
re_search(p, s) ==
    IF ~IsStr(s) THEN TypeError
    ELSE LET hits == {i \in 1..(Len(s) + 1) : MatchAt(s, i, p) # NoMatch}
         IN  IF hits = {} THEN None
             ELSE MatchAt(s, CHOOSE i \in hits : \A h \in hits : i <= h, p)

\* (?:https?://)?(?:www\.)?youtube\.com/watch\?v=([a-zA-Z0-9_-]{11})(?:&|$)
yt_pattern1 ==
    [www |-> TRUE, lit |-> WATCH_LIT,
     cls |-> IdChars, count |-> IdLen, tail |-> "&"]

\* as yt_pattern2, with the host part made optional: (?:youtu\.be/)?
yt_pattern2_optional_host ==
    [www |-> TRUE, lit |-> <<>>,
     cls |-> IdChars, count |-> IdLen, tail |-> "?"]

\* (?:https?://)?(?:www\.)?youtu\.be/([a-zA-Z0-9_-]{11})(?:\?|$)
yt_pattern2 ==
    [www |-> TRUE, lit |-> SHORT_LIT,
     cls |-> IdChars, count |-> IdLen, tail |-> "?"]

\* (?:https?://)?(?:www\.)?youtube\.com/embed/([a-zA-Z0-9_-]{11})(?:\?|$)
yt_pattern3 ==
    [www |-> TRUE, lit |-> EMBED_LIT,
     cls |-> IdChars, count |-> IdLen, tail |-> "?"]

\* (?:https?://)?(?:www\.)?vimeo\.com/(\d+)
vimeo_pattern1 ==
    [www |-> TRUE, lit |-> VIMEO_LIT,
     cls |-> Digits, count |-> 0, tail |-> "none"]

\* (?:https?://)?player\.vimeo\.com/video/(\d+)
vimeo_pattern2 ==
    [www |-> FALSE, lit |-> PLAYER_LIT,
     cls |-> Digits, count |-> 0, tail |-> "none"]

\* ------------------------------------------------------- the filters

\* as extract_youtube_id, with the youtu.be/ shape tried before the watch shape
extract_youtube_id_short_first(url) ==
    IF ~Truthy(url) THEN None
    ELSE LET m1 == re_search(yt_pattern1, url)
             m2 == re_search(yt_pattern2, url)
             m3 == re_search(yt_pattern3, url)
         IN  IF m2 # None THEN m2
             ELSE IF m1 # None THEN m1
             ELSE IF m3 # None THEN m3
             ELSE None

\* as extract_youtube_id, with the match kept in a module-level variable that
\* a concurrent caller's unfinished call overwrites
extract_youtube_id_shared(url) ==
    LET others == {q \in DOMAIN frame : frame[q].pc = "returned" /\ frame[q].url # url}
        u == IF others = {} THEN url
             ELSE frame[CHOOSE q \in others : \A r \in others : q <= r].url
    IN  IF ~Truthy(u) THEN None
        ELSE LET m1 == re_search(yt_pattern1, u)
                 m2 == re_search(yt_pattern2, u)
                 m3 == re_search(yt_pattern3, u)
             IN  IF m1 # None THEN m1
                 ELSE IF m2 # None THEN m2
                 ELSE IF m3 # None THEN m3
                 ELSE None

extract_youtube_id(url) ==
    IF ~Truthy(url) THEN None
    ELSE LET m1 == re_search(yt_pattern1, url)
             m2 == re_search(yt_pattern2, url)
             m3 == re_search(yt_pattern3, url)
         IN  IF m1 # None THEN m1
             ELSE IF m2 # None THEN m2
             ELSE IF m3 # None THEN m3
             ELSE None

\* as extract_vimeo_id, without the player.vimeo.com/video/ shape
extract_vimeo_id_no_player(url) ==
    IF ~Truthy(url) THEN None
    ELSE LET m1 == re_search(vimeo_pattern1, url)
         IN  IF m1 # None THEN m1
             ELSE None

\* as extract_vimeo_id, without the `if not url` guard
extract_vimeo_id_no_guard(url) ==
    LET m1 == re_search(vimeo_pattern1, url)
        m2 == re_search(vimeo_pattern2, url)
    IN  IF m1 # None THEN m1
        ELSE IF m2 # None THEN m2
        ELSE None

extract_vimeo_id(url) ==
    IF ~Truthy(url) THEN None
    ELSE LET m1 == re_search(vimeo_pattern1, url)
             m2 == re_search(vimeo_pattern2, url)
         IN  IF m1 # None THEN m1
             ELSE IF m2 # None THEN m2
             ELSE None

\* as is_youtube, written `'youtube.com' in url or 'youtu.be'`: the second
\* operand is the literal itself, which `or` returns
is_youtube_or_literal(url) ==
    IF ~Truthy(url) THEN False
    ELSE IF ~IsStr(url) THEN TypeError
    ELSE IF In(YOUTUBE_COM, url) THEN True
    ELSE YOUTU_BE

\* as is_youtube, testing for 'youtube.com' only
is_youtube_no_short(url) ==
    IF ~Truthy(url) THEN False
    ELSE IF ~IsStr(url) THEN TypeError
    ELSE IF In(YOUTUBE_COM, url) THEN True
    ELSE False

is_youtube(url) ==
    IF ~Truthy(url) THEN False
    ELSE IF ~IsStr(url) THEN TypeError
    ELSE IF In(YOUTUBE_COM, url) \/ In(YOUTU_BE, url) THEN True
    ELSE False

is_vimeo(url) ==
    IF ~Truthy(url) THEN False
    ELSE IF ~IsStr(url) THEN TypeError
    ELSE IF In(VIMEO_COM, url) THEN True
    ELSE False

\* as YouTubeEmbedPrefix, with the youtube.com embed host
YouTubeEmbedPrefix_plain_host == <<"h","t","t","p","s",":","/","/","w","w","w",".","y","o","u","t","u","b","e",".","c","o","m","/","e","m","b","e","d","/">>

YouTubeEmbedPrefix == <<"h","t","t","p","s",":","/","/","w","w","w",".","y","o","u","t","u","b","e","-","n","o","c","o","o","k","i","e",".","c","o","m","/","e","m","b","e","d","/">>

VimeoEmbedPrefix == <<"h","t","t","p","s",":","/","/","p","l","a","y","e","r",".","v","i","m","e","o",".","c","o","m","/","v","i","d","e","o","/">>

\* as get_video_embed_url, with `if` for the `elif` of the Vimeo branch: a
\* YouTube URL without an id falls through to it
get_video_embed_url_fallthrough(url) ==
    IF ~Truthy(url) THEN None
    ELSE IF ~IsStr(url) THEN TypeError
    ELSE LET yt == IF In(YOUTUBE_COM, url) \/ In(YOUTU_BE, url)
                   THEN extract_youtube_id(url)
                   ELSE None
         IN  IF Truthy(yt) THEN YouTubeEmbedPrefix \o yt
             ELSE IF In(VIMEO_COM, url)
                  THEN LET video_id == extract_vimeo_id(url)
                       IN  IF Truthy(video_id) THEN VimeoEmbedPrefix \o video_id
                           ELSE None
             ELSE None

\* as get_video_embed_url, without the `if video_id` of the Vimeo branch: the
\* f-string formats None as 'None'
get_video_embed_url_unchecked_id(url) ==
    IF ~Truthy(url) THEN None
    ELSE IF ~IsStr(url) THEN TypeError
    ELSE IF In(YOUTUBE_COM, url) \/ In(YOUTU_BE, url)
         THEN LET video_id == extract_youtube_id(url)
              IN  IF Truthy(video_id) THEN YouTubeEmbedPrefix \o video_id
                  ELSE None
    ELSE IF In(VIMEO_COM, url)
         THEN LET video_id == extract_vimeo_id(url)
              IN  IF video_id = None THEN VimeoEmbedPrefix \o <<"N", "o", "n", "e">>
                  ELSE VimeoEmbedPrefix \o video_id
    ELSE None

get_video_embed_url(url) ==
    IF ~Truthy(url) THEN None
    ELSE IF ~IsStr(url) THEN TypeError
    ELSE IF In(YOUTUBE_COM, url) \/ In(YOUTU_BE, url)
         THEN LET video_id == extract_youtube_id(url)
              IN  IF video_id = TypeError THEN TypeError
                  ELSE IF Truthy(video_id) THEN YouTubeEmbedPrefix \o video_id
                  ELSE None
    ELSE IF In(VIMEO_COM, url)
         THEN LET video_id == extract_vimeo_id(url)
              IN  IF video_id = TypeError THEN TypeError
                  ELSE IF Truthy(video_id) THEN VimeoEmbedPrefix \o video_id
                  ELSE None
    ELSE None

\* ------------------------------------------------------------ inputs

\* number of parts an input URL is put together from
MaxParts == 3

\* number of concurrent callers
NumCallers == 3

\* URLs of the shapes the filters support, without scheme
WatchUrl == WATCH_LIT \o <<"r","H","u","x","0","g","M","Z","3","E","g">>

ShortUrl == SHORT_LIT \o <<"D","x","C","J","B","e","F","2","M","q","E">>

EmbedUrl == EMBED_LIT \o <<"M","7","l","c","1","U","V","f","-","V","E">>

VimeoUrl == VIMEO_LIT \o <<"7", "6">>

PlayerUrl == PLAYER_LIT \o <<"9">>

Parts ==
    { HTTPS_SCHEME \o WWW_DOT, SHORT_LIT, VIMEO_LIT,
      WatchUrl, ShortUrl, EmbedUrl, VimeoUrl, PlayerUrl,
      <<"&">>, <<"?">>, <<"\n">>, <<"Z">> }

RECURSIVE Strs(_)
Strs(n) ==
    IF n = 0 THEN {<<>>}
    ELSE LET S == Strs(n - 1) IN S \cup {s \o f : s \in S, f \in Parts}

Inputs == {None} \cup Strs(MaxParts)

ConcInputs == {None, WatchUrl \o <<"&">>, SHORT_LIT \o VimeoUrl}

\* ------------------------------------------------------------- state

IdleFrame(u) == [pc |-> "idle", op |-> "none", url |-> u, result |-> None]

Init == frame \in [{1} -> {IdleFrame(u) : u \in Inputs}] /\ AppAtRest

ConcInit ==
    frame \in [1..NumCallers -> {IdleFrame(u) : u \in ConcInputs}] /\ AppAtRest

Call(p, name, value) ==
    /\ frame[p].pc = "idle"
    /\ frame' = [frame EXCEPT ![p] = [pc |-> "returned", op |-> name,
                                      url |-> frame[p].url, result |-> value]]
    /\ UNCHANGED appvars

CallExtractYoutubeId(p) ==
    Call(p, "extract_youtube_id", extract_youtube_id(frame[p].url))

CallExtractVimeoId(p) ==
    Call(p, "extract_vimeo_id", extract_vimeo_id(frame[p].url))

CallIsYoutube(p) == Call(p, "is_youtube", is_youtube(frame[p].url))

CallIsVimeo(p) == Call(p, "is_vimeo", is_vimeo(frame[p].url))

CallGetVideoEmbedUrl(p) ==
    Call(p, "get_video_embed_url", get_video_embed_url(frame[p].url))

\* the caller drops the returned value and is ready for its next call
Return(p) ==
    /\ frame[p].pc = "returned"
    /\ frame' = [frame EXCEPT ![p] = IdleFrame(frame[p].url)]
    /\ UNCHANGED appvars

Next ==
    \/ \E p \in DOMAIN frame : CallExtractYoutubeId(p)
    \/ \E p \in DOMAIN frame : CallExtractVimeoId(p)
    \/ \E p \in DOMAIN frame : CallIsYoutube(p)
    \/ \E p \in DOMAIN frame : CallIsVimeo(p)
    \/ \E p \in DOMAIN frame : CallGetVideoEmbedUrl(p)
    \/ \E p \in DOMAIN frame : Return(p)

Spec == Init /\ [][Next]_vars

ConcSpec == ConcInit /\ [][Next]_vars

\* ============================================================ properties

Returned(p, name) == frame[p].pc = "returned" /\ frame[p].op = name

\* the string holds none of 'youtube.com', 'youtu.be', 'vimeo.com'
Unrecognised(url) ==
    ~In(YOUTUBE_COM, url) /\ ~In(YOUTU_BE, url) /\ ~In(VIMEO_COM, url)

\* identifyProvider of the specification, from the two boolean filters
Provider(url) ==
    IF is_youtube(url) = True THEN "YouTube"
    ELSE IF is_vimeo(url) = True THEN "Vimeo"
    ELSE "Unknown"

\* C1: for a string holding none of 'youtube.com', 'youtu.be' and 'vimeo.com',
\* and for the empty string and None, is_youtube and is_vimeo return False and
\* get_video_embed_url returns None.
C1_UnrecognisedIsUnknown ==
    \A p \in DOMAIN frame :
        Unrecognised(frame[p].url) =>
            /\ Returned(p, "is_youtube") => frame[p].result = False
            /\ Returned(p, "is_vimeo") => frame[p].result = False
            /\ Returned(p, "get_video_embed_url") => frame[p].result = None

\* a non-empty URL-like string of no provider got False from is_youtube
C1_Witness ==
    \E p \in DOMAIN frame :
        /\ Returned(p, "is_youtube")
        /\ In(HTTPS_SCHEME, frame[p].url)
        /\ Len(frame[p].url) > IdLen
        /\ Unrecognised(frame[p].url)
        /\ frame[p].result = False

\* C2 as stated: provider = Unknown <=> videoId = null, that is a string
\* classified as YouTube has a YouTube id, a string classified as Vimeo has a
\* Vimeo id, and a string classified as neither has no id of either kind.
C2_ProviderUnknownIffNoId ==
    \A p \in DOMAIN frame :
        /\ Returned(p, "extract_youtube_id") =>
              /\ is_youtube(frame[p].url) = True => frame[p].result # None
              /\ Provider(frame[p].url) = "Unknown" => frame[p].result = None
        /\ Returned(p, "extract_vimeo_id") =>
              /\ is_vimeo(frame[p].url) = True => frame[p].result # None
              /\ Provider(frame[p].url) = "Unknown" => frame[p].result = None

\* C2 as amended: provider = Unknown => videoId = null. An extractor returns an
\* id only for a string that its boolean filter classifies as that provider,
\* and both extractors return None for a string classified as neither; a
\* string that is_youtube or is_vimeo accepts may have no id.
C2_IdImpliesProvider ==
    \A p \in DOMAIN frame :
        /\ Returned(p, "extract_youtube_id") =>
              /\ frame[p].result # None => is_youtube(frame[p].url) = True
              /\ Provider(frame[p].url) = "Unknown" => frame[p].result = None
        /\ Returned(p, "extract_vimeo_id") =>
              /\ frame[p].result # None => is_vimeo(frame[p].url) = True
              /\ Provider(frame[p].url) = "Unknown" => frame[p].result = None
        /\ Returned(p, "is_youtube") /\ frame[p].result = False =>
              extract_youtube_id(frame[p].url) = None
        /\ Returned(p, "is_vimeo") /\ frame[p].result = False =>
              extract_vimeo_id(frame[p].url) = None

\* extract_youtube_id returned an id for a string that is_youtube accepts
C2_Witness ==
    \E p \in DOMAIN frame :
        /\ Returned(p, "extract_youtube_id")
        /\ frame[p].result # None
        /\ Len(frame[p].result) = IdLen
        /\ is_youtube(frame[p].url) = True

\* C3: for a string holding 'youtube.com' or 'youtu.be', get_video_embed_url
\* returns 'https://www.youtube-nocookie.com/embed/' followed by the id that
\* extract_youtube_id returns, and None when that id is None, also when the
\* string holds a well-formed vimeo.com/<digits> part.
C3_YouTubeBranch ==
    \A p \in DOMAIN frame :
        /\ Returned(p, "get_video_embed_url")
        /\ In(YOUTUBE_COM, frame[p].url) \/ In(YOUTU_BE, frame[p].url)
        => frame[p].result =
              LET id == extract_youtube_id(frame[p].url)
              IN  IF id # None THEN YouTubeEmbedPrefix \o id ELSE None

\* a YouTube string without an id and with a Vimeo id got None
C3_Witness ==
    \E p \in DOMAIN frame :
        /\ Returned(p, "get_video_embed_url")
        /\ In(YOUTU_BE, frame[p].url)
        /\ extract_youtube_id(frame[p].url) = None
        /\ extract_vimeo_id(frame[p].url) # None
        /\ frame[p].result = None

\* C4: for a string holding 'vimeo.com' and neither 'youtube.com' nor
\* 'youtu.be', get_video_embed_url returns 'https://player.vimeo.com/video/'
\* followed by the id that extract_vimeo_id returns, and None when that id is
\* None.
C4_VimeoBranch ==
    \A p \in DOMAIN frame :
        /\ Returned(p, "get_video_embed_url")
        /\ In(VIMEO_COM, frame[p].url)
        /\ ~In(YOUTUBE_COM, frame[p].url)
        /\ ~In(YOUTU_BE, frame[p].url)
        => frame[p].result =
              LET id == extract_vimeo_id(frame[p].url)
              IN  IF id # None THEN VimeoEmbedPrefix \o id ELSE None

\* https://www.vimeo.com/76 got https://player.vimeo.com/video/76
C4_Witness ==
    \E p \in DOMAIN frame :
        /\ Returned(p, "get_video_embed_url")
        /\ frame[p].url = HTTPS_SCHEME \o WWW_DOT \o VimeoUrl
        /\ frame[p].result = VimeoEmbedPrefix \o <<"7", "6">>

\* the three shapes of extract_youtube_id: the text before the id and the
\* character that may follow it
YouTubeShapes ==
    {<<WATCH_LIT, "&">>, <<SHORT_LIT, "?">>, <<EMBED_LIT, "?">>}

\* id stands in url right after the text of a shape, is a whole run of
\* identifier characters, and is followed by the shape's character or by the
\* end of the string
IdAtShape(url, id) ==
    \E sh \in YouTubeShapes : \E i \in 1..Len(url) :
        LET j == i + Len(sh[1])
            e == j + IdLen
        IN  /\ LitAt(url, i, sh[1])
            /\ e - 1 <= Len(url)
            /\ SubSeq(url, j, e - 1) = id
            /\ RunLen(url, j, IdChars) = IdLen
            /\ e = Len(url) + 1 \/ url[e] = sh[2]

\* C5: a non-None result of extract_youtube_id is exactly 11 characters of
\* [A-Za-z0-9_-], stands right after 'youtube.com/watch?v=', 'youtu.be/' or
\* 'youtube.com/embed/', and is followed in the input by '&' (watch) or '?'
\* (short, embed) or by the end of the string; a run of 12 or more, or fewer
\* than 11, identifier characters there gives no match.
C5_IdShapeAndBoundary ==
    \A p \in DOMAIN frame :
        Returned(p, "extract_youtube_id") /\ frame[p].result # None =>
            /\ Len(frame[p].result) = IdLen
            /\ \A k \in 1..Len(frame[p].result) : frame[p].result[k] \in IdChars
            /\ IdAtShape(frame[p].url, frame[p].result)

\* C6: extract_youtube_id returns the id of the first of the shapes watch?v=,
\* youtu.be/, embed/ (in that order) that matches anywhere in the string, and
\* None only if none of them matches.
C6_FirstShapeWins ==
    \A p \in DOMAIN frame :
        Returned(p, "extract_youtube_id") /\ Truthy(frame[p].url) =>
            LET m1 == re_search(yt_pattern1, frame[p].url)
                m2 == re_search(yt_pattern2, frame[p].url)
                m3 == re_search(yt_pattern3, frame[p].url)
            IN  /\ m1 # None => frame[p].result = m1
                /\ m1 = None /\ m2 # None => frame[p].result = m2
                /\ m1 = None /\ m2 = None /\ m3 # None => frame[p].result = m3
                /\ frame[p].result = None <=> m1 = None /\ m2 = None /\ m3 = None

\* the youtu.be/ shape stands first in the string, the watch shape after it
\* with another id, and the watch id was returned
C6_Witness ==
    \E p \in DOMAIN frame :
        /\ Returned(p, "extract_youtube_id")
        /\ LitAt(frame[p].url, 1, ShortUrl)
        /\ re_search(yt_pattern2, frame[p].url) # None
        /\ re_search(yt_pattern1, frame[p].url) # None
        /\ re_search(yt_pattern1, frame[p].url) # re_search(yt_pattern2, frame[p].url)
        /\ frame[p].result = re_search(yt_pattern1, frame[p].url)

\* the run of digits right after the leftmost occurrence of lit that a digit
\* follows, None when there is none
DigitsAfter(url, lit) ==
    LET at == {i \in 1..Len(url) :
                  LitAt(url, i, lit) /\ RunLen(url, i + Len(lit), Digits) >= 1}
    IN  IF at = {} THEN None
        ELSE LET i == CHOOSE x \in at : \A y \in at : x <= y
                 j == i + Len(lit)
             IN  SubSeq(url, j, j + RunLen(url, j, Digits) - 1)

\* C7: extract_vimeo_id returns the run of digits right after 'vimeo.com/'
\* (whatever follows the digits), otherwise the run of digits right after
\* 'player.vimeo.com/video/', otherwise None; a player.vimeo.com/video/<digits>
\* URL has no match of the first shape and yields its digits by the second.
C7_VimeoShapes ==
    \A p \in DOMAIN frame :
        Returned(p, "extract_vimeo_id") /\ Truthy(frame[p].url) =>
            LET d1 == DigitsAfter(frame[p].url, VIMEO_LIT)
                d2 == DigitsAfter(frame[p].url, PLAYER_LIT)
            IN  /\ frame[p].result =
                      IF d1 # None THEN d1 ELSE IF d2 # None THEN d2 ELSE None
                /\ frame[p].url \in {PlayerUrl, HTTPS_SCHEME \o WWW_DOT \o PlayerUrl}
                      => d1 = None /\ frame[p].result = <<"9">>

\* a player URL, to which the first shape does not apply, gave its digits
C7_Witness ==
    \E p \in DOMAIN frame :
        /\ Returned(p, "extract_vimeo_id")
        /\ In(PLAYER_LIT, frame[p].url)
        /\ DigitsAfter(frame[p].url, VIMEO_LIT) = None
        /\ frame[p].result = <<"9">>

\* C8: extract_youtube_id applied to an id it returned (a bare 11-character
\* identifier) returns None.
C8_IdHasNoId ==
    \A p \in DOMAIN frame :
        Returned(p, "extract_youtube_id") /\ frame[p].result # None =>
            extract_youtube_id(frame[p].result) = None

\* the id of the watch URL was returned
C8_Witness ==
    \E p \in DOMAIN frame :
        /\ Returned(p, "extract_youtube_id")
        /\ frame[p].result = SubSeq(WatchUrl, Len(WATCH_LIT) + 1, Len(WatchUrl))

\* C9: every filter returns a value for every str and for None: a boolean
\* from is_youtube and is_vimeo, None or a non-empty str from the others,
\* never an exception.
C9_Total ==
    \A p \in DOMAIN frame :
        frame[p].pc = "returned" =>
            /\ frame[p].result # TypeError
            /\ frame[p].op \in {"is_youtube", "is_vimeo"} =>
                  frame[p].result \in {True, False}
            /\ frame[p].op \notin {"is_youtube", "is_vimeo"} =>
                  \/ frame[p].result = None
                  \/ IsStr(frame[p].result) /\ Len(frame[p].result) > 0

\* extract_vimeo_id returned None for None
C9_Witness ==
    \E p \in DOMAIN frame :
        /\ Returned(p, "extract_vimeo_id")
        /\ frame[p].url = None
        /\ frame[p].result = None

StartsWith(s, prefix) == LitAt(s, 1, prefix)

\* C16: get_video_embed_url applied to its own non-None output returns the
\* same URL when the output is a Vimeo player URL, and None when the output is
\* a YouTube embed URL.
C16_EmbedOfEmbed ==
    \A p \in DOMAIN frame :
        Returned(p, "get_video_embed_url") /\ frame[p].result # None =>
            /\ StartsWith(frame[p].result, VimeoEmbedPrefix)
               \/ StartsWith(frame[p].result, YouTubeEmbedPrefix)
            /\ StartsWith(frame[p].result, VimeoEmbedPrefix) =>
                  get_video_embed_url(frame[p].result) = frame[p].result
            /\ StartsWith(frame[p].result, YouTubeEmbedPrefix) =>
                  get_video_embed_url(frame[p].result) = None

\* a vimeo.com/<digits> URL gave a player URL, which is its own embed URL
C16_Witness ==
    \E p \in DOMAIN frame :
        /\ Returned(p, "get_video_embed_url")
        /\ frame[p].url = VimeoUrl
        /\ frame[p].result # frame[p].url
        /\ get_video_embed_url(frame[p].result) = frame[p].result

\* ---------------------------------------------------------------------
\* The records of the application and the way they are saved
\* ---------------------------------------------------------------------

UpperCase ==
    <<"A", "B", "C", "D", "E", "F", "G", "H", "I", "J", "K", "L", "M", "N", "O", "P", "Q", "R", "S", "T", "U", "V", "W", "X", "Y", "Z">>

LowerCase ==
    <<"a", "b", "c", "d", "e", "f", "g", "h", "i", "j", "k", "l", "m", "n", "o", "p", "q", "r", "s", "t", "u", "v", "w", "x", "y", "z">>

\* str.lower() on one character
Lower(c) ==
    IF \E k \in DOMAIN UpperCase : UpperCase[k] = c
    THEN LowerCase[CHOOSE k \in DOMAIN UpperCase : UpperCase[k] = c]
    ELSE c

\* \w of the regular expressions of slugify, on ASCII text
WordChars == IdChars \ {"-"}

\* the characters slugify turns into one hyphen: [-\s]
SlugSeparators == {"-", " "}

RECURSIVE DropSeparators(_)
DropSeparators(v) ==
    IF v # <<>> /\ v[1] \in SlugSeparators THEN DropSeparators(Tail(v)) ELSE v

\* re.sub(r'[-\s]+', '-', value)
RECURSIVE CollapseSeparators(_)
CollapseSeparators(v) ==
    IF v = <<>> THEN <<>>
    ELSE IF v[1] \in SlugSeparators
         THEN <<"-">> \o CollapseSeparators(DropSeparators(v))
         ELSE <<v[1]>> \o CollapseSeparators(Tail(v))

\* str.strip(chars)
RECURSIVE Strip(_, _)
Strip(v, chars) ==
    IF v = <<>> THEN <<>>
    ELSE IF v[1] \in chars THEN Strip(Tail(v), chars)
    ELSE IF v[Len(v)] \in chars THEN Strip(SubSeq(v, 1, Len(v) - 1), chars)
    ELSE v

\* django.utils.text.slugify on ASCII text: lower-case, drop what is neither a
\* word character, white space nor a hyphen, turn each run of white space and
\* hyphens into one hyphen, strip hyphens and underscores at both ends
slugify(value) ==
    LET lowered == [k \in DOMAIN value |-> Lower(value[k])]
        kept == SelectSeq(lowered, LAMBDA c : c \in WordChars \cup SlugSeparators)
    IN Strip(CollapseSeparators(kept), {"-", "_"})

\* request.user of a request without a session (AnonymousUser)
Anonymous == 0

\* an instance that has no primary key yet
NoPk == 0

\* the rows of table tbl other than the one with primary key pk
OtherRows(tbl, pk) == {q \in tbl : q.id # pk}

\* Model.save() of a whole row: UPDATE the row with the instance's primary
\* key, INSERT it when there is none (a new instance takes the next key of
\* the sequence); a unique constraint on one of the columns of `unique`
\* refuses the write
Model_save(tbl, seq, obj, unique) ==
    LET inst == IF obj.id = NoPk THEN [obj EXCEPT !.id = seq + 1] ELSE obj
    IN IF \E q \in OtherRows(tbl, inst.id) : \E f \in unique : q[f] = inst[f]
       THEN [ok |-> FALSE, rows |-> tbl, seq |-> seq, obj |-> obj]
       ELSE [ok |-> TRUE, rows |-> OtherRows(tbl, inst.id) \cup {inst},
             seq |-> IF inst.id > seq THEN inst.id ELSE seq, obj |-> inst]

\* the slug of a post is always regenerated from the title
VlogPost_slug_regenerated(obj) == slugify(obj.title)

\* VlogPost.save, the slug it saves
VlogPost_slug(obj) == IF obj.slug = <<>> THEN slugify(obj.title) ELSE obj.slug

\* VlogPost.save without update_fields
VlogPost_save(d, obj) ==
    LET r == Model_save(d.posts, d.post_seq,
                        [obj EXCEPT !.slug = VlogPost_slug(obj)], {"slug"})
    IN [ok |-> r.ok, obj |-> r.obj,
        db |-> [d EXCEPT !.posts = r.rows, !.post_seq = r.seq]]

\* Category.save, the slug it saves
Category_slug(obj) == IF obj.slug = <<>> THEN slugify(obj.name) ELSE obj.slug

\* Category.save
Category_save(d, obj) ==
    LET r == Model_save(d.categories, d.cat_seq,
                        [obj EXCEPT !.slug = Category_slug(obj)], {"name", "slug"})
    IN [ok |-> r.ok, obj |-> r.obj,
        db |-> [d EXCEPT !.categories = r.rows, !.cat_seq = r.seq]]

\* VlogPost.increment_views: add one to the instance's count and write that
\* one column of the instance's row; without the row the save fails
VlogPost_increment_views(d, obj) ==
    LET inst == [obj EXCEPT !.views_count = @ + 1, !.slug = VlogPost_slug(obj)]
    IN IF \E q \in d.posts : q.id = inst.id
       THEN [ok |-> TRUE, obj |-> inst,
             db |-> [d EXCEPT !.posts =
                        {IF q.id = inst.id
                         THEN [q EXCEPT !.views_count = inst.views_count]
                         ELSE q : q \in @}]]
       ELSE [ok |-> FALSE, obj |-> inst, db |-> d]

\* ---------------------------------------------------------------------
\* The views: requests of several clients, interleaved at their database
\* accesses
\* ---------------------------------------------------------------------

MaxRequests == 3

MaxAdminOps == 1

\* the field of a request that holds no loaded instance
NoPost ==
    [id |-> NoPk, title |-> <<>>, slug |-> <<>>, author |-> Anonymous,
     category |-> NoPk, published_date |-> 0, views_count |-> 0]

\* titles submitted with the post form
FormTitles == {<<"A", " ", "b">>, <<"!">>}

\* names submitted with the category form of the admin site
FormNames == {<<"C", "+", "+">>, <<"+", "+">>}

\* the database the views start from: two users and one category
AppDb ==
    [users |-> {[id |-> 1, username |-> "admin"], [id |-> 2, username |-> "creator"]},
     categories |-> {[id |-> 1, name |-> <<"P", "y", "t", "h", "o", "n", " ", "B", "a", "s", "i", "c", "s">>,
                      slug |-> <<"p", "y", "t", "h", "o", "n", "-", "b", "a", "s", "i", "c", "s">>]},
     posts |-> {},
     user_seq |-> 2, cat_seq |-> 1, post_seq |-> 0]

AppInit ==
    /\ frame = <<>>
    /\ db = AppDb
    /\ requests = <<>>
    /\ clock = 0
    /\ last = NoRun

\* request.user: a logged-in user or the anonymous user
RequestUsers == {u.id : u \in db.users} \cup {Anonymous}

\* primary keys a URL can name: those handed out so far
PostPks == 1..db.post_seq

PostsByPk(pk) == {q \in db.posts : q.id = pk}

\* get_object of a view on an existing row
PostByPk(pk) == CHOOSE q \in db.posts : q.id = pk

\* a request, with the step it is at and the instance it holds
Request(kind, user, pk, title, pc, obj, status) ==
    [kind |-> kind, user |-> user, pk |-> pk, title |-> title,
     pc |-> pc, obj |-> obj, status |-> status]

StartRequest(req) ==
    /\ Len(requests) < MaxRequests
    /\ requests' = Append(requests, req)

\* the operations of the admin site
AdminKinds == {"category_add", "category_change", "post_change", "delete_vlogs"}

\* an operation of the admin site, done in one step by the superuser
AdminRequest(kind, pk, title, obj, status) ==
    /\ Cardinality({i \in DOMAIN requests : requests[i].kind \in AdminKinds})
           < MaxAdminOps
    /\ \E user \in {u.id : u \in {a \in db.users : a.username = "admin"}} :
           StartRequest(Request(kind, user, pk, title, "done", obj, status))

AtStep(i, kind, pc) == requests[i].kind = kind /\ requests[i].pc = pc

Finish(i, status, obj) ==
    requests' = [requests EXCEPT ![i] = [@ EXCEPT !.pc = "done", !.status = status,
                                                  !.obj = obj]]

\* VlogUpdateView.test_func passes every logged-in user
VlogUpdateView_test_func_any_user(user, vlog) == TRUE

\* VlogUpdateView.test_func
VlogUpdateView_test_func(user, vlog) == user = vlog.author

\* VlogDeleteView.test_func passes every logged-in user
VlogDeleteView_test_func_any_user(user, vlog) == TRUE

\* VlogDeleteView.test_func
VlogDeleteView_test_func(user, vlog) == user = vlog.author

\* dispatch of LoginRequiredMixin, then of UserPassesTestMixin with the
\* outcome `passes` of test_func on the row of pk
DispatchStatus(user, pk, passes) ==
    IF user = Anonymous THEN "redirect_login"
    ELSE IF PostsByPk(pk) = {} THEN "not_found"
    ELSE IF ~passes THEN "forbidden"
    ELSE "pending"

\* VlogCreateView, POST: LoginRequiredMixin, then form_valid sets the author
\* and saves a new instance
VlogCreateView_form_valid(user, title) ==
    LET inst == [id |-> NoPk, title |-> title, slug |-> <<>>, author |-> user,
                 category |-> 1, published_date |-> clock, views_count |-> 0]
        saved == VlogPost_save(db, inst)
    IN /\ IF user = Anonymous
          THEN /\ StartRequest(Request("create", user, NoPk, title, "done", NoPost,
                                       "redirect_login"))
               /\ db' = db
          ELSE /\ StartRequest(Request("create", user, saved.obj.id, title, "done",
                                       saved.obj, IF saved.ok THEN "ok" ELSE "error"))
               /\ db' = saved.db
       /\ UNCHANGED <<frame, clock, last>>

\* VlogUpdateView, POST: dispatch
VlogUpdateView_dispatch(user, pk, title) ==
    LET st == DispatchStatus(user, pk,
                  PostsByPk(pk) # {} /\ VlogUpdateView_test_func(user, PostByPk(pk)))
    IN /\ StartRequest(Request("update", user, pk, title,
                               IF st = "pending" THEN "get_object" ELSE "done",
                               NoPost, st))
       /\ UNCHANGED <<frame, db, clock, last>>

\* VlogUpdateView, POST: get_object for the form
VlogUpdateView_get_object(i) ==
    /\ AtStep(i, "update", "get_object")
    /\ IF PostsByPk(requests[i].pk) = {}
       THEN Finish(i, "not_found", NoPost)
       ELSE requests' = [requests EXCEPT ![i] =
                            [@ EXCEPT !.pc = "form_valid",
                                      !.obj = PostByPk(requests[i].pk)]]
    /\ UNCHANGED <<frame, db, clock, last>>

\* VlogUpdateView.form_valid: the form's fields and the author go into the
\* instance, which is saved
VlogUpdateView_form_valid(i) ==
    /\ AtStep(i, "update", "form_valid")
    /\ LET inst == [requests[i].obj EXCEPT !.title = requests[i].title,
                                          !.author = requests[i].user]
           saved == VlogPost_save(db, inst)
       IN /\ Finish(i, IF saved.ok THEN "ok" ELSE "error", saved.obj)
          /\ db' = saved.db
    /\ UNCHANGED <<frame, clock, last>>

\* VlogDeleteView, POST: dispatch
VlogDeleteView_dispatch(user, pk) ==
    LET st == DispatchStatus(user, pk,
                  PostsByPk(pk) # {} /\ VlogDeleteView_test_func(user, PostByPk(pk)))
    IN /\ StartRequest(Request("delete", user, pk, <<>>,
                               IF st = "pending" THEN "delete" ELSE "done",
                               NoPost, st))
       /\ UNCHANGED <<frame, db, clock, last>>

\* VlogDeleteView, POST: get_object and delete
VlogDeleteView_delete(i) ==
    /\ AtStep(i, "delete", "delete")
    /\ IF PostsByPk(requests[i].pk) = {}
       THEN Finish(i, "not_found", NoPost) /\ db' = db
       ELSE /\ Finish(i, "ok", PostByPk(requests[i].pk))
            /\ db' = [db EXCEPT !.posts = OtherRows(@, requests[i].pk)]
    /\ UNCHANGED <<frame, clock, last>>

\* VlogDetailView.get_object: the load of the instance
VlogDetailView_get_object(pk) ==
    /\ IF PostsByPk(pk) = {}
       THEN StartRequest(Request("detail", Anonymous, pk, <<>>, "done", NoPost,
                                 "not_found"))
       ELSE StartRequest(Request("detail", Anonymous, pk, <<>>, "increment_views",
                                 PostByPk(pk), "pending"))
    /\ UNCHANGED <<frame, db, clock, last>>

\* VlogDetailView.get_object: increment_views on the loaded instance
VlogDetailView_increment_views(i) ==
    /\ AtStep(i, "detail", "increment_views")
    /\ LET saved == VlogPost_increment_views(db, requests[i].obj)
       IN /\ Finish(i, IF saved.ok THEN "ok" ELSE "error", saved.obj)
          /\ db' = saved.db
    /\ UNCHANGED <<frame, clock, last>>

\* what a write of the admin site leaves of `last`
LastAfterWrite == IF db' = db THEN last ELSE NoRun

\* CategoryAdmin, add view: the form refuses a name that exists, then a new
\* instance is saved (one transaction)
CategoryAdmin_add(name) ==
    LET inst == [id |-> NoPk, name |-> name, slug |-> <<>>]
        saved == Category_save(db, inst)
        valid == \A c \in db.categories : c.name # name
    IN /\ AdminRequest("category_add", saved.obj.id, name, NoPost,
                        IF ~valid THEN "invalid"
                        ELSE IF saved.ok THEN "ok" ELSE "error")
       /\ db' = IF valid THEN saved.db ELSE db
       /\ last' = LastAfterWrite
       /\ UNCHANGED <<frame, clock>>

\* CategoryAdmin, change view: the name of the form goes into the loaded
\* instance, which is saved (one transaction)
CategoryAdmin_change(c, name) ==
    LET inst == [c EXCEPT !.name = name]
        saved == Category_save(db, inst)
        valid == \A o \in OtherRows(db.categories, c.id) : o.name # name
    IN /\ c \in db.categories
       /\ AdminRequest("category_change", c.id, name, NoPost,
                        IF ~valid THEN "invalid"
                        ELSE IF saved.ok THEN "ok" ELSE "error")
       /\ db' = IF valid THEN saved.db ELSE db
       /\ last' = LastAfterWrite
       /\ UNCHANGED <<frame, clock>>

AppNext ==
    \/ \E user \in RequestUsers, title \in FormTitles :
           VlogCreateView_form_valid(user, title)
    \/ \E user \in RequestUsers, pk \in PostPks, title \in FormTitles :
           VlogUpdateView_dispatch(user, pk, title)
    \/ \E i \in DOMAIN requests : VlogUpdateView_get_object(i)
    \/ \E i \in DOMAIN requests : VlogUpdateView_form_valid(i)
    \/ \E user \in RequestUsers, pk \in PostPks : VlogDeleteView_dispatch(user, pk)
    \/ \E i \in DOMAIN requests : VlogDeleteView_delete(i)
    \/ \E pk \in PostPks : VlogDetailView_get_object(pk)
    \/ \E i \in DOMAIN requests : VlogDetailView_increment_views(i)
    \/ \E name \in FormNames : CategoryAdmin_add(name)
    \/ \E c \in db.categories, name \in FormNames : CategoryAdmin_change(c, name)

AppSpec == AppInit /\ [][AppNext]_vars

\* every table has one row per primary key, below the table's sequence
AppTypeOK ==
    /\ \A p, q \in db.posts : p.id = q.id => p = q
    /\ \A p \in db.posts : p.id \in 1..db.post_seq
    /\ \A c, e \in db.categories : c.id = e.id => c = e
    /\ \A c \in db.categories : c.id \in 1..db.cat_seq

\* ---------------------------------------------------------------------
\* Properties of the views
\* ---------------------------------------------------------------------

\* the request started by the present step, if the step starts one
StartsRequest == Len(requests') = Len(requests) + 1

StartedRequest == requests'[Len(requests')]

\* request i takes the present step
Steps(i) == requests'[i] # requests[i]

\* C11: an update or delete request of the anonymous user, or of a logged-in
\* user who is not the author of the post, is rejected at dispatch and writes
\* nothing; a post changes in anything but its view count, or ceases to exist,
\* only in a step of an update or delete request of its author.
C11_AuthorOnly ==
    [][/\ StartsRequest /\ StartedRequest.kind \in {"update", "delete"}
          /\ \/ StartedRequest.user = Anonymous
             \/ \E q \in PostsByPk(StartedRequest.pk) : q.author # StartedRequest.user
          => /\ StartedRequest.pc = "done"
             /\ StartedRequest.status \in {"redirect_login", "forbidden"}
             /\ db' = db
       /\ \A q \in db.posts :
              [q EXCEPT !.views_count = 0]
                  \notin {[n EXCEPT !.views_count = 0] : n \in db'.posts}
              => \E i \in DOMAIN requests :
                     /\ Steps(i)
                     /\ requests[i].kind \in {"update", "delete"}
                     /\ requests[i].pk = q.id
                     /\ requests[i].user = q.author
                     /\ requests[i].user # Anonymous]_vars

C11_Witness ==
    \E i, j \in DOMAIN requests :
        /\ requests[i].kind = "update" /\ requests[i].status = "forbidden"
        /\ requests[j].kind = "delete" /\ requests[j].status = "redirect_login"
        /\ requests[i].pk = requests[j].pk
        /\ \E q \in PostsByPk(requests[i].pk) :
               /\ q.author # requests[i].user
               /\ q.title # requests[i].title

\* the detail requests for the post with primary key pk that were served
ViewsOf(pk) ==
    {i \in DOMAIN requests :
        requests[i].kind = "detail" /\ requests[i].pk = pk /\ requests[i].status = "ok"}

\* no request for the post with primary key pk is between two of its steps,
\* and no update request for it came past dispatch
OnlyViewed(pk) ==
    \A i \in DOMAIN requests :
        requests[i].pk = pk =>
            /\ requests[i].pc = "done"
            /\ requests[i].kind = "update" =>
                   requests[i].status \in {"redirect_login", "forbidden"}

\* C12: after any interleaving of n detail requests for a post, with nothing
\* else written to it, its views_count is n.
C12_ViewsCounted ==
    \A q \in db.posts :
        OnlyViewed(q.id) => q.views_count = Cardinality(ViewsOf(q.id))

\* request i of requests' did a save that wrote a row in the present step
Saves(i, kinds) ==
    /\ requests'[i].kind \in kinds
    /\ requests'[i].status = "ok"
    /\ i \in DOMAIN requests => Steps(i)

\* the slug of the instance a saving request held before the save: empty for
\* a new instance, else that of the instance it loaded
SlugBeforeSave(i) ==
    IF requests'[i].kind \in {"create", "category_add"} THEN <<>>
    ELSE IF requests'[i].kind = "update" THEN requests[i].obj.slug
    ELSE (CHOOSE c \in db.categories : c.id = requests'[i].pk).slug

C14_AuthorIsCreator ==
    \A q \in db.posts :
        \E i \in DOMAIN requests :
            /\ requests[i].kind = "create"
            /\ requests[i].status = "ok"
            /\ requests[i].pk = q.id
            /\ requests[i].user = q.author

C14_Witness ==
    \E i, j \in DOMAIN requests :
        /\ requests[i].kind = "create" /\ requests[i].status = "ok"
        /\ requests[j].kind = "update" /\ requests[j].status = "ok"
        /\ requests[j].pk = requests[i].pk
        /\ requests[j].title # requests[i].title
        /\ \E q \in PostsByPk(requests[i].pk) :
               q.title = requests[j].title /\ q.author = requests[i].user

\* ---------------------------------------------------------------------
\* The initialize_app command, with the admin site and the clock as its
\* environment
\* ---------------------------------------------------------------------

MaxClock == 1

MaxPostId == 9

\* categories_data, the names
SampleCategories ==
    << <<"D", "j", "a", "n", "g", "o", " ", "T", "u", "t", "o", "r", "i", "a", "l", "s">>,
       <<"P", "y", "t", "h", "o", "n", " ", "B", "a", "s", "i", "c", "s">>,
       <<"W", "e", "b", " ", "D", "e", "v", "e", "l", "o", "p", "m", "e", "n", "t">>,
       <<"T", "e", "c", "h", "n", "o", "l", "o", "g", "y", " ", "N", "e", "w", "s">> >>

\* vlogs_data: title, category, author and days_ago
SampleVlogs ==
    << [title |-> <<"G", "e", "t", "t", "i", "n", "g", " ", "S", "t", "a", "r", "t", "e", "d", " ", "w", "i", "t", "h", " ", "D", "j", "a", "n", "g", "o">>,
        category |-> SampleCategories[1], author |-> "admin", days_ago |-> 5],
       [title |-> <<"P", "y", "t", "h", "o", "n", " ", "L", "i", "s", "t", " ", "C", "o", "m", "p", "r", "e", "h", "e", "n", "s", "i", "o", "n", "s", " ", "E", "x", "p", "l", "a", "i", "n", "e", "d">>,
        category |-> SampleCategories[2], author |-> "creator", days_ago |-> 3],
       [title |-> <<"R", "e", "s", "p", "o", "n", "s", "i", "v", "e", " ", "W", "e", "b", " ", "D", "e", "s", "i", "g", "n", " ", "w", "i", "t", "h", " ", "B", "o", "o", "t", "s", "t", "r", "a", "p">>,
        category |-> SampleCategories[3], author |-> "admin", days_ago |-> 2],
       [title |-> <<"L", "a", "t", "e", "s", "t", " ", "A", "I", " ", "T", "e", "c", "h", "n", "o", "l", "o", "g", "y", " ", "T", "r", "e", "n", "d", "s", " ", "2", "0", "2", "4">>,
        category |-> SampleCategories[4], author |-> "creator", days_ago |-> 1] >>

\* the three deletes of --reset
ResetData(d) ==
    [d EXCEPT !.posts = {}, !.categories = {},
              !.users = {u \in @ : u.username # "admin"}]

\* create_superuser / create_user under `if not ... exists()`
EnsureUser(d, username) ==
    IF \E u \in d.users : u.username = username THEN d
    ELSE [d EXCEPT !.users = @ \cup {[id |-> d.user_seq + 1, username |-> username]},
                   !.user_seq = @ + 1]

\* Category.objects.get_or_create(name=..., defaults=...)
Category_get_or_create(d, name) ==
    IF \E c \in d.categories : c.name = name
    THEN [ok |-> TRUE, db |-> d]
    ELSE LET saved == Category_save(d, [id |-> NoPk, name |-> name, slug |-> <<>>])
         IN [ok |-> saved.ok, db |-> saved.db]

\* the loop over categories_data from its k-th entry on; an exception ends
\* the command with what was written before
RECURSIVE CreateCategories(_, _)
CreateCategories(d, k) ==
    IF k > Len(SampleCategories) THEN [ok |-> TRUE, db |-> d]
    ELSE LET r == Category_get_or_create(d, SampleCategories[k])
         IN IF r.ok THEN CreateCategories(r.db, k + 1) ELSE r

\* VlogPost.objects.update_or_create: an existing post takes the defaults
VlogPost_update_or_create(d, title, defaults) ==
    LET found == {q \in d.posts : q.title = title}
    IN IF Cardinality(found) > 1 THEN [ok |-> FALSE, db |-> d]
       ELSE LET inst == IF found = {}
                        THEN [id |-> NoPk, title |-> title, slug |-> <<>>,
                              author |-> defaults.author,
                              category |-> defaults.category,
                              published_date |-> defaults.published_date,
                              views_count |-> 0]
                        ELSE [(CHOOSE q \in found : TRUE) EXCEPT
                                  !.author = defaults.author,
                                  !.category = defaults.category,
                                  !.published_date = defaults.published_date]
                saved == VlogPost_save(d, inst)
            IN [ok |-> saved.ok, db |-> saved.db]

\* VlogPost.objects.get_or_create(title=..., defaults=...): one post with the
\* title is taken as it is, several raise MultipleObjectsReturned, none makes
\* a new post from the defaults, and its save may raise IntegrityError
VlogPost_get_or_create(d, title, defaults) ==
    LET found == {q \in d.posts : q.title = title}
    IN IF Cardinality(found) > 1 THEN [ok |-> FALSE, db |-> d]
       ELSE IF found # {} THEN [ok |-> TRUE, db |-> d]
       ELSE LET saved == VlogPost_save(d,
                             [id |-> NoPk, title |-> title, slug |-> <<>>,
                              author |-> defaults.author,
                              category |-> defaults.category,
                              published_date |-> defaults.published_date,
                              views_count |-> 0])
            IN [ok |-> saved.ok, db |-> saved.db]

\* the loop over vlogs_data from its k-th entry on at time now
RECURSIVE CreateVlogs(_, _, _)
CreateVlogs(d, k, now) ==
    IF k > Len(SampleVlogs) THEN [ok |-> TRUE, db |-> d]
    ELSE LET v == SampleVlogs[k]
             defaults ==
                 [author |-> (CHOOSE u \in d.users : u.username = v.author).id,
                  category |-> (CHOOSE c \in d.categories : c.name = v.category).id,
                  published_date |-> now - v.days_ago]
             r == VlogPost_get_or_create(d, v.title, defaults)
         IN IF r.ok THEN CreateVlogs(r.db, k + 1, now) ELSE r

\* Command.handle
handle(d, reset, now) ==
    LET cleared == IF reset THEN ResetData(d) ELSE d
        withUsers == EnsureUser(EnsureUser(cleared, "admin"), "creator")
        withCategories == CreateCategories(withUsers, 1)
    IN IF withCategories.ok THEN CreateVlogs(withCategories.db, 1, now)
       ELSE withCategories

\* one run of `manage.py initialize_app [--reset]`
InitializeApp(reset) ==
    /\ db.post_seq + Len(SampleVlogs) <= MaxPostId
    /\ \E r \in {handle(db, reset, clock)} :
          /\ db' = r.db
          /\ last' = [run |-> IF reset THEN "reset" ELSE "plain",
                      outcome |-> IF r.ok THEN "completed" ELSE "crashed",
                      at |-> clock]
    /\ UNCHANGED <<frame, requests, clock>>

\* time passes
Tick ==
    /\ clock < MaxClock
    /\ clock' = clock + 1
    /\ UNCHANGED <<frame, db, requests, last>>

\* VlogPostAdmin, change view: the title of the form goes into the loaded
\* instance, which is saved (one transaction)
VlogPostAdmin_change(q, title) ==
    LET saved == VlogPost_save(db, [q EXCEPT !.title = title])
    IN /\ q \in db.posts
       /\ AdminRequest("post_change", q.id, title, saved.obj,
                        IF saved.ok THEN "ok" ELSE "error")
       /\ db' = saved.db
       /\ last' = LastAfterWrite
       /\ UNCHANGED <<frame, clock>>

\* VlogPostAdmin.delete_vlogs on a selection of posts
VlogPostAdmin_delete_vlogs(queryset) ==
    /\ queryset \subseteq db.posts
    /\ AdminRequest("delete_vlogs", NoPk, <<>>, NoPost, "ok")
    /\ db' = [db EXCEPT !.posts = @ \ queryset]
    /\ last' = LastAfterWrite
    /\ UNCHANGED <<frame, clock>>

CmdInit ==
    /\ frame = <<>>
    /\ db = EmptyDb
    /\ requests = <<>>
    /\ clock = 0
    /\ last = NoRun

CmdNext ==
    \/ \E reset \in BOOLEAN : InitializeApp(reset)
    \/ Tick
    \/ \E q \in db.posts : VlogPostAdmin_change(q, SampleVlogs[1].title)
    \/ \E q \in db.posts : VlogPostAdmin_delete_vlogs({q})
    \/ \E c \in db.categories, name \in FormNames : CategoryAdmin_change(c, name)

CmdSpec == CmdInit /\ [][CmdNext]_vars

\* ---------------------------------------------------------------------
\* Properties of the initialize_app command
\* ---------------------------------------------------------------------

\* the present step is a run of initialize_app without --reset
PlainRun == last'.run = "plain" /\ clock' = clock /\ requests' = requests

\* the users, categories and posts of the sample data exist once each in d
SampleDataOnce(d) ==
    /\ \A username \in {"admin", "creator"} :
           Cardinality({u \in d.users : u.username = username}) = 1
    /\ \A k \in DOMAIN SampleCategories :
           Cardinality({c \in d.categories : c.name = SampleCategories[k]}) = 1
    /\ \A k \in DOMAIN SampleVlogs :
           Cardinality({q \in d.posts : q.title = SampleVlogs[k].title}) = 1

\* C15: a run of initialize_app without --reset on the database a completed
\* run left, at whatever later time, completes and leaves every user, category
\* and post as it was, each sample record existing once; on the database a
\* failed run left it fails again and writes nothing.
C15_Idempotent ==
    [][PlainRun /\ last.outcome # "none" =>
           /\ db'.users = db.users
           /\ db'.categories = db.categories
           /\ db'.posts = db.posts
           /\ last'.outcome = last.outcome
           /\ last.outcome = "completed" => SampleDataOnce(db')]_vars

C15_Witness ==
    /\ last.run = "plain" /\ last.outcome = "completed"
    /\ SampleDataOnce(db)
    /\ \A q \in db.posts : \A k \in DOMAIN SampleVlogs :
           q.title = SampleVlogs[k].title =>
               q.published_date + SampleVlogs[k].days_ago < last.at

====
